---- MODULE Spec2Model ----
(***************************************************************************)
(* A model of the plugins server: the excel generator router (layout of    *)
(* tables on a worksheet, the asynchronous file write, the hourly cleanup  *)
(* of the exports directory) and the web page reader router.               *)
(*                                                                         *)
(* JavaScript strings are sequences of one-character strings, so that the  *)
(* conversions of the code (charCodeAt, parseInt, Number) are computed on  *)
(* the characters.                                                         *)
(***************************************************************************)
EXTENDS Integers, Sequences, FiniteSets, TLC

VARIABLES
    \* layout engine (one call of the tables.forEach body)
    table, config, sheet, lpc,
    \* server process
    clock, dir, gens, sweep, webs

layoutVars == <<table, config, sheet, lpc>>
serverVars == <<clock, dir, gens, sweep, webs>>
vars == <<table, config, sheet, lpc, clock, dir, gens, sweep, webs>>

(***************************************************************************)
(* JavaScript values.  Every value is a record of one shape:               *)
(*   t: "undefined" | "null" | "str" | "num" | "nan" | "bool" | "date" |   *)
(*      "formula" | "object"                                               *)
(*   s: the characters of a string (of a formula's text, of a date's       *)
(*      source string)                                                     *)
(*   n, d: a number n/d with d a power of ten (a boolean: n = 1 or 0)      *)
(***************************************************************************)
Undefined == [t |-> "undefined", s |-> <<>>, n |-> 0, d |-> 1]
Null == [t |-> "null", s |-> <<>>, n |-> 0, d |-> 1]
Str(s) == [t |-> "str", s |-> s, n |-> 0, d |-> 1]
Num(n, d) == [t |-> "num", s |-> <<>>, n |-> n, d |-> d]
NaNValue == [t |-> "nan", s |-> <<>>, n |-> 0, d |-> 1]
Bool(b) == [t |-> "bool", s |-> <<>>, n |-> IF b THEN 1 ELSE 0, d |-> 1]
DateOf(v) == [t |-> "date", s |-> v.s, n |-> v.n, d |-> v.d]
FormulaOf(v) == [t |-> "formula", s |-> v.s, n |-> v.n, d |-> v.d]
CellObject(type, value) == [type |-> type, value |-> value]

\* the row number that parseInt gives when no digit leads the string
NaN == -1

Digits == <<"0", "1", "2", "3", "4", "5", "6", "7", "8", "9">>
Letters == <<"A", "B", "C", "D", "E", "F", "G", "H", "I", "J", "K", "L", "M",
             "N", "O", "P", "Q", "R", "S", "T", "U", "V", "W", "X", "Y", "Z">>

IsDigit(c) == \E i \in 1..Len(Digits) : Digits[i] = c
DigitValue(c) == (CHOOSE i \in 1..Len(Digits) : Digits[i] = c) - 1

\* String.prototype.charCodeAt for the upper-case letters ('A' is 65)
charCodeAt(str, i) == 64 + (CHOOSE k \in 1..Len(Letters) : Letters[k] = str[i])

RECURSIVE Pow10(_)
Pow10(k) == IF k = 0 THEN 1 ELSE 10 * Pow10(k - 1)

RECURSIVE DigitsValue(_)
DigitsValue(s) ==
    IF Len(s) = 0 THEN 0
    ELSE 10 * DigitsValue(SubSeq(s, 1, Len(s) - 1)) + DigitValue(s[Len(s)])

AllDigits(s) == \A i \in 1..Len(s) : IsDigit(s[i])

(***************************************************************************)
(* Coordinate utility                                                      *)
(***************************************************************************)
RECURSIVE columnLetterLoop(_, _, _)
columnLetterLoop(letter, i, column) ==
    IF i > Len(letter) THEN column
    ELSE columnLetterLoop(letter, i + 1,
             column * 26 + charCodeAt(letter, i) - charCodeAt(<<"A">>, 1) + 1)

columnLetterToNumber(letter) == columnLetterLoop(letter, 1, 0)

\* parseInt(string): the value of the longest prefix of decimal digits, NaN
\* when the string does not start with a digit
RECURSIVE DigitPrefixLen(_)
DigitPrefixLen(s) ==
    IF Len(s) = 0 \/ ~IsDigit(s[1]) THEN 0 ELSE 1 + DigitPrefixLen(Tail(s))

parseInt(s) ==
    IF DigitPrefixLen(s) = 0 THEN NaN
    ELSE DigitsValue(SubSeq(s, 1, DigitPrefixLen(s)))

\* rowIndex++ and row arithmetic: NaN stays NaN
RowPlus(r, k) == IF r = NaN THEN NaN ELSE r + k

(***************************************************************************)
(* Number(value), isNaN, Math.round, Boolean(value), new Date(value)       *)
(***************************************************************************)
FirstDot(s) ==
    IF \E i \in 1..Len(s) : s[i] = "."
    THEN CHOOSE i \in 1..Len(s) : s[i] = "." /\ \A j \in 1..(i - 1) : s[j] # "."
    ELSE Len(s) + 1

\* an unsigned StrDecimalLiteral: digits [. digits] or . digits
UnsignedToNumber(s) ==
    LET dot == FirstDot(s)
        ip == SubSeq(s, 1, dot - 1)
        fp == SubSeq(s, dot + 1, Len(s))
    IN  IF AllDigits(ip) /\ AllDigits(fp) /\ Len(ip) + Len(fp) > 0
        THEN Num(DigitsValue(ip) * Pow10(Len(fp)) + DigitsValue(fp), Pow10(Len(fp)))
        ELSE NaNValue

StringToNumber(s) ==
    IF Len(s) = 0 THEN Num(0, 1)
    ELSE IF s[1] = "-"
         THEN LET u == UnsignedToNumber(Tail(s))
              IN  IF u.t = "nan" THEN u ELSE Num(0 - u.n, u.d)
    ELSE IF s[1] = "+" THEN UnsignedToNumber(Tail(s))
    ELSE UnsignedToNumber(s)

Number(v) ==
    CASE v.t = "str" -> StringToNumber(v.s)
      [] v.t = "num" -> v
      [] v.t = "null" -> Num(0, 1)
      [] v.t = "bool" -> Num(v.n, 1)
      [] OTHER -> NaNValue

isNaN(v) == v.t = "nan"

\* a rounding that drops the fraction
MathRoundTruncating(v) == Num(v.n \div v.d, 1)

\* Math.round: the nearest integer, a half rounded towards +Infinity
MathRound(v) == Num((2 * v.n + v.d) \div (2 * v.d), 1)

Boolean(v) ==
    CASE v.t = "str" -> Bool(Len(v.s) > 0)
      [] v.t = "num" -> Bool(v.n # 0)
      [] v.t = "bool" -> v
      [] OTHER -> Bool(FALSE)

\* new Date(value) is a valid date for a number and for a string of the form
\* YYYY-MM-DD (the date-only form of the ECMAScript date-time format)
IsIsoDate(s) ==
    /\ Len(s) = 10
    /\ \A i \in {1, 2, 3, 4, 6, 7, 9, 10} : IsDigit(s[i])
    /\ s[5] = "-" /\ s[8] = "-"
    /\ DigitsValue(SubSeq(s, 6, 7)) \in 1..12
    /\ DigitsValue(SubSeq(s, 9, 10)) \in 1..28

DateIsValid(v) ==
    CASE v.t = "str" -> IsIsoDate(v.s)
      [] v.t = "num" -> TRUE
      [] OTHER -> FALSE

(***************************************************************************)
(* The worksheet: the cells written, the merged ranges, the autofilter and *)
(* the column widths.  A format is a string; "undefined" is no format.     *)
(***************************************************************************)
NoFilter == [set |-> FALSE, fromRow |-> 0, fromCol |-> 0, toRow |-> 0, toCol |-> 0]
EmptySheet == [cells |-> <<>>, merges |-> {}, autoFilter |-> NoFilter, widths |-> <<>>]
EmptyCell == [value |-> Null, numFmt |-> "undefined", style |-> "none"]

\* worksheet.getCell(row, col): the cell, created empty when it is new
getCell(ws, row, col) ==
    IF <<row, col>> \in DOMAIN ws.cells THEN ws.cells[<<row, col>>] ELSE EmptyCell

putCell(ws, row, col, cell) ==
    [ws EXCEPT !.cells = (<<row, col>> :> cell) @@ @]

\* worksheet.mergeCells(top, left, bottom, right)
mergeCells(ws, top, left, bottom, right) ==
    [ws EXCEPT !.merges = @ \cup
        {[top |-> top, left |-> left, bottom |-> bottom, right |-> right]}]

InMerge(m, row, col) ==
    m.top <= row /\ row <= m.bottom /\ m.left <= col /\ col <= m.right

\* cell.value read back: a cell of a merged range reads its master's value
readValue(ws, row, col) ==
    IF \E m \in ws.merges : InMerge(m, row, col)
    THEN LET master == CHOOSE m \in ws.merges : InMerge(m, row, col)
         IN  getCell(ws, master.top, master.left).value
    ELSE getCell(ws, row, col).value

Falsy(format) == format \in {"", "undefined"}
Truthy(str) == str.t = "str" /\ Len(str.s) > 0

(***************************************************************************)
(* String(value).length                                                    *)
(***************************************************************************)
RECURSIVE IntToChars(_)
IntToChars(n) ==
    IF n < 10 THEN <<Digits[n + 1]>>
    ELSE IntToChars(n \div 10) \o <<Digits[(n % 10) + 1]>>

RECURSIVE FractionChars(_, _)
FractionChars(f, d) ==
    IF d = 1 THEN <<>>
    ELSE <<Digits[(f \div (d \div 10)) + 1]>> \o FractionChars(f % (d \div 10), d \div 10)

\* String(number) for a decimal n/d: no trailing zero in the fraction
RECURSIVE NumberToChars(_, _)
NumberToChars(n, d) ==
    IF d > 1 /\ n % 10 = 0 THEN NumberToChars(n \div 10, d \div 10)
    ELSE IF n < 0 THEN <<"-">> \o NumberToChars(0 - n, d)
    ELSE IF d = 1 THEN IntToChars(n)
    ELSE IntToChars(n \div d) \o <<".">> \o FractionChars(n % d, d)

\* "[object Object]"
ObjectStringLength == 15

StringLength(v) ==
    CASE v.t = "str" -> Len(v.s)
      [] v.t = "num" -> Len(NumberToChars(v.n, v.d))
      [] v.t = "bool" -> IF v.n = 1 THEN 4 ELSE 5
      [] v.t = "formula" -> ObjectStringLength

Max(a, b) == IF a >= b THEN a ELSE b

(***************************************************************************)
(* Cell formatter: the body of rowData.forEach                             *)
(***************************************************************************)
columnTypeAt(columns, colIdx) ==
    IF colIdx < Len(columns) THEN columns[colIdx + 1].type ELSE "undefined"

resolvedFormat(col) ==
    CASE col.type = "number" -> IF Falsy(col.format) THEN "undefined" ELSE col.format
      [] col.type = "percent" -> IF Falsy(col.format) THEN "0.00%" ELSE col.format
      [] col.type = "currency" -> IF Falsy(col.format) THEN "$#,##0" ELSE col.format
      [] col.type = "date" -> IF Falsy(col.format) THEN "undefined" ELSE col.format
      [] OTHER -> "undefined"

columnFormatAt(columns, colIdx) ==
    IF colIdx < Len(columns) THEN resolvedFormat(columns[colIdx + 1]) ELSE "undefined"

\* Math.round(Number(cellValue)) when it is a number, else the literal
numberValue(cellValue) ==
    IF ~isNaN(Number(cellValue)) THEN MathRound(Number(cellValue)) ELSE cellValue

numberFormat(format) == IF Falsy(format) THEN "0" ELSE format

formatCell(cell, cellData, valueType, format) ==
    LET type == IF cellData.type = "undefined" THEN "static_value" ELSE cellData.type
        value == cellData.value
        cellValue == IF value.t \notin {"null", "undefined"} THEN value ELSE Str(<<>>)
        written ==
            IF type = "formula"
            THEN [cell EXCEPT !.value = FormulaOf(cellValue),
                              !.numFmt = IF valueType \in {"percent", "currency", "number", "date"}
                                         THEN format ELSE @]
            ELSE CASE valueType = "number" ->
                        [cell EXCEPT !.value = numberValue(cellValue),
                                     !.numFmt = numberFormat(format)]
                   [] valueType = "boolean" ->
                        [cell EXCEPT !.value = Boolean(cellValue)]
                   [] valueType = "date" ->
                        [cell EXCEPT !.value = IF DateIsValid(cellValue)
                                               THEN DateOf(cellValue) ELSE cellValue,
                                     !.numFmt = IF Falsy(format) THEN "yyyy-mm-dd" ELSE format]
                   [] valueType \in {"percent", "currency"} ->
                        [cell EXCEPT !.value = IF ~isNaN(Number(cellValue))
                                               THEN Number(cellValue) ELSE cellValue,
                                     !.numFmt = format]
                   [] OTHER ->
                        [cell EXCEPT !.value = IF cellValue.t = "num"
                                               THEN Str(NumberToChars(cellValue.n, cellValue.d))
                                               ELSE Str(cellValue.s)]
    IN  [written EXCEPT !.style = "body"]

(***************************************************************************)
(* Layout engine: the body of tables.forEach, and autoFitColumns           *)
(***************************************************************************)
UndefinedString == <<"undefined">>

RECURSIVE writeHeader(_, _, _, _, _)
writeHeader(ws, columns, colIdx, rowIndex, startCol) ==
    IF colIdx >= Len(columns) THEN ws
    ELSE writeHeader(
            putCell(ws, rowIndex, startCol + colIdx,
                [getCell(ws, rowIndex, startCol + colIdx) EXCEPT
                    !.value = Str(columns[colIdx + 1].name), !.style = "header"]),
            columns, colIdx + 1, rowIndex, startCol)

RECURSIVE writeRow(_, _, _, _, _, _)
writeRow(ws, rowData, colIdx, rowIndex, startCol, columns) ==
    IF colIdx >= Len(rowData) THEN ws
    ELSE writeRow(
            putCell(ws, rowIndex, startCol + colIdx,
                formatCell(getCell(ws, rowIndex, startCol + colIdx), rowData[colIdx + 1],
                           columnTypeAt(columns, colIdx), columnFormatAt(columns, colIdx))),
            rowData, colIdx + 1, rowIndex, startCol, columns)

RECURSIVE writeRows(_, _, _, _, _, _)
writeRows(ws, rows, k, rowIndex, startCol, columns) ==
    IF k > Len(rows) THEN ws
    ELSE writeRows(writeRow(ws, rows[k], 0, rowIndex, startCol, columns),
                   rows, k + 1, RowPlus(rowIndex, 1), startCol, columns)

RECURSIVE rowsMaxLength(_, _, _)
rowsMaxLength(rows, k, colIdx) ==
    IF k > Len(rows) THEN 0
    ELSE Max(IF colIdx < Len(rows[k]) THEN ObjectStringLength ELSE 0,
             rowsMaxLength(rows, k + 1, colIdx))

columnWidth(ws, startRow, rows, colIdx, startCol) ==
    LET headerCell == readValue(ws, startRow, startCol + colIdx)
        maxLength == rowsMaxLength(rows, 1, colIdx)
    IN  (IF headerCell.t \notin {"null", "undefined"}
         THEN Max(maxLength, StringLength(headerCell)) ELSE maxLength) + 2

RECURSIVE autoFitColumns(_, _, _, _, _, _)
autoFitColumns(ws, startRow, rows, numColumns, startCol, colIdx) ==
    IF colIdx >= numColumns THEN ws
    ELSE autoFitColumns(
            [ws EXCEPT !.widths = ((startCol + colIdx) :>
                            columnWidth(ws, startRow, rows, colIdx, startCol)) @@ @],
            startRow, rows, numColumns, startCol, colIdx + 1)

tableStartCell(tbl) == IF tbl.startCell = UndefinedString THEN <<"A", "1">> ELSE tbl.startCell
tableStartCol(tbl) == columnLetterToNumber(<<tableStartCell(tbl)[1]>>)
tableStartRow(tbl) == parseInt(Tail(tableStartCell(tbl)))

writeTitle(ws, tbl) ==
    LET startCol == tableStartCol(tbl)
        rowIndex == tableStartRow(tbl)
    IN  mergeCells(
            putCell(ws, rowIndex, startCol,
                [getCell(ws, rowIndex, startCol) EXCEPT !.value = tbl.title, !.style = "title"]),
            rowIndex, startCol, rowIndex, startCol + Len(tbl.columns) - 1)

\* a title that does not advance rowIndex
rowAfterTitleNoAdvance(tbl) == tableStartRow(tbl)

\* rowIndex after the title, after the header, after the data rows
rowAfterTitle(tbl) ==
    IF Truthy(tbl.title) THEN RowPlus(tableStartRow(tbl), 1) ELSE tableStartRow(tbl)
rowAfterHeader(tbl) ==
    IF ~tbl.skipHeader THEN RowPlus(rowAfterTitle(tbl), 1) ELSE rowAfterTitle(tbl)
rowAfterRows(tbl) == RowPlus(rowAfterHeader(tbl), Len(tbl.rows))

setAutoFilter(ws, tbl) ==
    [ws EXCEPT !.autoFilter =
        [set |-> TRUE,
         fromRow |-> RowPlus(tableStartRow(tbl), 1), fromCol |-> tableStartCol(tbl),
         toRow |-> RowPlus(rowAfterRows(tbl), -1),
         toCol |-> tableStartCol(tbl) + Len(tbl.columns) - 1]]

placeTable(ws, tbl, excelConfigs) ==
    LET startCol == tableStartCol(tbl)
        startRow == tableStartRow(tbl)
        ws1 == IF Truthy(tbl.title) THEN writeTitle(ws, tbl) ELSE ws
        ws2 == IF ~tbl.skipHeader
               THEN writeHeader(ws1, tbl.columns, 0, rowAfterTitle(tbl), startCol) ELSE ws1
        ws3 == writeRows(ws2, tbl.rows, 1, rowAfterHeader(tbl), startCol, tbl.columns)
        ws4 == IF excelConfigs.autoFilter THEN setAutoFilter(ws3, tbl) ELSE ws3
    IN  IF excelConfigs.autoFitColumnWidth
        THEN autoFitColumns(ws4, startRow, tbl.rows, Len(tbl.columns), startCol, 0)
        ELSE ws4

(***************************************************************************)
(* Bounded inputs of the layout engine                                     *)
(***************************************************************************)
MaxCols == 2
MaxRows == 2
MaxValueLen == 3

SeqsUpTo(S, n) == UNION {[1..k -> S] : k \in 0..n}

StartCells == {<<"A", "1">>, <<"B", "1", "2">>, <<"A", "A", "1">>, <<"B", "A", "3">>,
               UndefinedString}
Titles == {Undefined, Str(<<"S", "a", "l", "e", "s">>)}
ColumnSamples ==
    {[name |-> <<"Q", "t", "y">>, type |-> "number", format |-> ""],
     [name |-> <<"C", "o", "m", "m", "e", "n", "t">>, type |-> "text", format |-> ""],
     [name |-> <<"S", "h", "a", "r", "e">>, type |-> "percent", format |-> "0.0%"]}
CellSamples == {CellObject("static_value", Str(<<"4", "2", ".", "7">>))}

Tables ==
    [startCell : StartCells, title : Titles, skipHeader : BOOLEAN,
     columns : SeqsUpTo(ColumnSamples, MaxCols),
     rows : SeqsUpTo(SeqsUpTo(CellSamples, MaxCols), MaxRows)]
Configs == [autoFilter : BOOLEAN, autoFitColumnWidth : BOOLEAN]

\* one cell in one column: every column type, values over a small alphabet
ValueChars == {"-", ".", "2", "5", "x"}
ValueSamples ==
    {Str(s) : s \in SeqsUpTo(ValueChars, MaxValueLen)}
    \cup {Str(<<"4", "2", ".", "7">>), Null, Undefined,
          Num(427, 10), Num(25, 10), Num(-25, 10), Num(3, 1)}
DateSamples ==
    {Str(<<"2", "0", "2", "4", "-", "0", "1", "-", "1", "5">>),
     Str(<<"n", "o", "t", "-", "a", "-", "d", "a", "t", "e">>), Num(3, 1), Null}
CellTypes == {"static_value", "formula", "undefined"}
Formats == {"", "undefined", "0.0"}
CellColumns ==
    [name : {<<"Q", "t", "y">>},
     type : {"number", "percent", "currency", "boolean", "text"}, format : Formats]
DateColumns == [name : {<<"D", "a", "y">>}, type : {"date"}, format : Formats]

CellTables ==
    [startCell : {<<"B", "3">>}, title : Titles, skipHeader : BOOLEAN,
     columns : {<<c>> : c \in CellColumns},
     rows : {<<<<CellObject(t, v)>>>> : t \in CellTypes, v \in ValueSamples}]
    \cup
    [startCell : {<<"B", "3">>}, title : Titles, skipHeader : BOOLEAN,
     columns : {<<c>> : c \in DateColumns},
     rows : {<<<<CellObject(t, v)>>>> : t \in CellTypes, v \in DateSamples}]

(***************************************************************************)
(* The server process.                                                     *)
(*   clock   Date.now(), in milliseconds                                   *)
(*   dir     the exports directory: file name -> [mtime, content]; a file  *)
(*           excel-file-<digits of the time> is named by that time         *)
(*   gens    the POST /excel-generator/generate requests handled so far    *)
(*   sweep   the cleanup job's run in progress                             *)
(*   webs    the GET /web-page-reader/get-content requests handled so far  *)
(***************************************************************************)
oneHour == 60 * 60 * 1000

MaxGens == 1
MaxWebs == 3
MaxHours == 1

\* the process starts one millisecond before an hour; the directory holds
\* two files that an earlier run left, named by the time of their writing
StartTime == 2 * oneHour - 1
LeftoverTimes == {oneHour - 1, oneHour}
EndTime == StartTime + 1 + MaxHours * oneHour

\* time advances to the next instant of interest: the millisecond before an
\* hour, the hour
NextInstant(t) ==
    IF t % oneHour = oneHour - 1 THEN t + 1
    ELSE (t \div oneHour + 1) * oneHour - 1

(* request bodies of the generate endpoint *)
SampleTable ==
    [startCell |-> <<"A", "1">>, title |-> Str(<<"S", "a", "l", "e", "s">>),
     skipHeader |-> FALSE,
     columns |-> <<[name |-> <<"Q", "t", "y">>, type |-> "number", format |-> ""]>>,
     rows |-> <<<<CellObject("static_value", Str(<<"3">>))>>>>]
ReportSheet == [sheetName |-> "Report", hasTables |-> TRUE, tables |-> <<SampleTable>>]
NoTablesSheet == [sheetName |-> "Report", hasTables |-> FALSE, tables |-> <<>>]
NoConfigs == [present |-> FALSE, autoFilter |-> "undefined", autoFitColumnWidth |-> "undefined"]
EmptyConfigs == [present |-> TRUE, autoFilter |-> "undefined", autoFitColumnWidth |-> "undefined"]

Bodies ==
    {[hasSheetsData |-> FALSE, sheetsData |-> <<>>, excelConfigs |-> EmptyConfigs],
     [hasSheetsData |-> TRUE, sheetsData |-> <<>>, excelConfigs |-> EmptyConfigs],
     [hasSheetsData |-> TRUE, sheetsData |-> <<ReportSheet>>, excelConfigs |-> EmptyConfigs],
     [hasSheetsData |-> TRUE, sheetsData |-> <<ReportSheet>>, excelConfigs |-> NoConfigs],
     [hasSheetsData |-> TRUE, sheetsData |-> <<ReportSheet, NoTablesSheet>>,
      excelConfigs |-> EmptyConfigs]}

\* a ?? b on a flag of the request's excelConfigs
Coalesce(flag, default) == IF flag = "undefined" THEN default ELSE flag = "true"

resolveConfigs(excelConfigs) ==
    [autoFilter |-> Coalesce(excelConfigs.autoFilter, FALSE),
     autoFitColumnWidth |-> Coalesce(excelConfigs.autoFitColumnWidth, TRUE)]

RECURSIVE placeTables(_, _, _, _)
placeTables(ws, tables, k, excelConfigs) ==
    IF k > Len(tables) THEN ws
    ELSE placeTables(placeTable(ws, tables[k], excelConfigs), tables, k + 1, excelConfigs)

\* execGenExcelFuncs: tables.forEach on a sheet without tables throws; the
\* file is named by the time of the call; the write is started, not awaited
execGenExcelFuncs(sheetsData, excelConfigs, now) ==
    [threw |-> \E i \in 1..Len(sheetsData) : ~sheetsData[i].hasTables,
     workbook |-> [i \in 1..Len(sheetsData) |->
                     [sheetName |-> sheetsData[i].sheetName,
                      worksheet |-> placeTables(EmptySheet, sheetsData[i].tables, 1,
                                                excelConfigs)]],
     fileName |-> now]

\* what the handler of POST /generate answers, and whether it started a write
generateOutcome(body, now) ==
    IF ~body.hasSheetsData \/ Len(body.sheetsData) = 0
    THEN [status |-> 400, message |-> "[Validation Error] Sheets data is required!",
          fileName |-> 0, write |-> "none"]
    ELSE IF ~body.excelConfigs.present
    THEN [status |-> 500, message |-> "Error Cannot read properties of undefined",
          fileName |-> 0, write |-> "none"]
    ELSE IF execGenExcelFuncs(body.sheetsData, resolveConfigs(body.excelConfigs), now).threw
    THEN [status |-> 500, message |-> "Error Cannot read properties of undefined",
          fileName |-> 0, write |-> "none"]
    ELSE [status |-> 200, message |-> "File generated successfully",
          fileName |-> now, write |-> "pending"]

IdleSweep ==
    [phase |-> "idle", now |-> 0, listing |-> <<>>, statPending |-> {}, seen |-> <<>>,
     statErr |-> {}, unlinkPending |-> {}, unlinkErr |-> {}, deleted |-> {}]

SweepOver(sw) ==
    sw.phase = "callbacks" /\ sw.statPending = {} /\ sw.unlinkPending = {}

ServerIdle ==
    /\ clock = StartTime /\ dir = <<>> /\ gens = <<>> /\ sweep = IdleSweep /\ webs = <<>>

ServerInit ==
    /\ clock = StartTime
    /\ dir = [f \in LeftoverTimes |-> [mtime |-> f, content |-> <<>>]]
    /\ gens = <<>>
    /\ sweep = IdleSweep
    /\ webs = <<>>

Tick ==
    /\ NextInstant(clock) <= EndTime
    /\ clock' = NextInstant(clock)
    /\ UNCHANGED <<dir, gens, sweep>>

(* router.post('/generate'): the handler runs to its response in one step *)
Generate(body) ==
    /\ Len(gens) < MaxGens
    /\ gens' = Append(gens, [body |-> body] @@ generateOutcome(body, clock))
    /\ UNCHANGED <<clock, dir, sweep, webs>>

(* workbook.xlsx.writeFile resolves: the file is in the directory *)
WriteResolve(i) ==
    /\ gens[i].write = "pending"
    /\ gens' = [gens EXCEPT ![i].write = "written"]
    /\ dir' = (gens[i].fileName :>
                 [mtime |-> clock,
                  content |-> execGenExcelFuncs(gens[i].body.sheetsData,
                                  resolveConfigs(gens[i].body.excelConfigs),
                                  gens[i].fileName).workbook]) @@ dir
    /\ UNCHANGED <<clock, sweep, webs>>

(* workbook.xlsx.writeFile rejects: .catch logs the error *)
WriteReject(i) ==
    /\ gens[i].write = "pending"
    /\ gens' = [gens EXCEPT ![i].write = "failed"]
    /\ UNCHANGED <<clock, dir, sweep, webs>>

(* cron.schedule('0 * * * *'): the job starts on the hour *)
CronFire ==
    /\ clock % oneHour = 0
    /\ sweep.now # clock
    /\ sweep.phase = "idle" \/ SweepOver(sweep)
    /\ sweep' = [IdleSweep EXCEPT !.phase = "readdir", !.now = clock]
    /\ UNCHANGED <<clock, dir, gens, webs>>

(* fs.readdir's callback *)
ReaddirCallback ==
    /\ sweep.phase = "readdir"
    /\ \/ sweep' = [sweep EXCEPT !.phase = "callbacks"]
       \/ sweep' = [sweep EXCEPT !.phase = "callbacks",
                                 !.listing = [f \in DOMAIN dir |-> dir[f].mtime],
                                 !.statPending = DOMAIN dir]
    /\ UNCHANGED <<clock, dir, gens, webs>>

\* an age test that also deletes a file exactly one hour old
statOkInclusive(sw, f, mtime) ==
    [sw EXCEPT !.statPending = @ \ {f},
               !.seen = (f :> mtime) @@ @,
               !.unlinkPending = IF sw.now - mtime >= oneHour THEN @ \cup {f} ELSE @]

\* the callback of fs.stat for one entry, without error
statOk(sw, f, mtime) ==
    [sw EXCEPT !.statPending = @ \ {f},
               !.seen = (f :> mtime) @@ @,
               !.unlinkPending = IF sw.now - mtime > oneHour THEN @ \cup {f} ELSE @]

\* a stat error that gives up the entries not yet looked at
statErrorAborting(sw, f) ==
    [sw EXCEPT !.statPending = {}, !.statErr = @ \cup {f}]

\* the callback of fs.stat for one entry, with an error
statError(sw, f) ==
    [sw EXCEPT !.statPending = @ \ {f}, !.statErr = @ \cup {f}]

StatCallback(f) ==
    /\ sweep.phase = "callbacks"
    /\ f \in sweep.statPending
    /\ \/ f \in DOMAIN dir /\ sweep' = statOk(sweep, f, dir[f].mtime)
       \/ sweep' = statError(sweep, f)
    /\ UNCHANGED <<clock, dir, gens, webs>>

(* fs.unlink's callback *)
UnlinkCallback(f) ==
    /\ f \in sweep.unlinkPending
    /\ \/ /\ f \in DOMAIN dir
          /\ dir' = [g \in DOMAIN dir \ {f} |-> dir[g]]
          /\ sweep' = [sweep EXCEPT !.unlinkPending = @ \ {f}, !.deleted = @ \cup {f}]
       \/ /\ sweep' = [sweep EXCEPT !.unlinkPending = @ \ {f}, !.unlinkErr = @ \cup {f}]
          /\ UNCHANGED dir
    /\ UNCHANGED <<clock, gens, webs>>

(* router.get('/get-content'): up to the await of the fetch *)
UrlKinds == {"missing", "array", "string"}

getContentStart(url) ==
    IF url # "string"
    THEN [url |-> url, phase |-> "returned", status |-> 0, message |-> "", fetched |-> FALSE]
    ELSE [url |-> url, phase |-> "fetching", status |-> 0, message |-> "", fetched |-> TRUE]

GetContent(url) ==
    /\ Len(webs) < MaxWebs
    /\ webs' = Append(webs, getContentStart(url))
    /\ UNCHANGED <<clock, dir, gens, sweep>>

(* the fetch resolves and the page is parsed: 200; a parse error: 500 *)
FetchResolve(i) ==
    /\ webs[i].phase = "fetching"
    /\ \/ webs' = [webs EXCEPT ![i].phase = "returned", ![i].status = 200,
                                ![i].message = "Content fetched successfully"]
       \/ webs' = [webs EXCEPT ![i].phase = "returned", ![i].status = 500,
                                ![i].message = "Error fetching content (parse)"]
    /\ UNCHANGED <<clock, dir, gens, sweep>>

(* the fetch rejects: 500 *)
FetchReject(i) ==
    /\ webs[i].phase = "fetching"
    /\ webs' = [webs EXCEPT ![i].phase = "returned", ![i].status = 500,
                             ![i].message = "Error fetching content (fetch)"]
    /\ UNCHANGED <<clock, dir, gens, sweep>>

(***************************************************************************)
(* The layout engine as a state machine: a table is laid out on a fresh    *)
(* worksheet in one synchronous step.                                      *)
(***************************************************************************)
LayoutIdle == table = <<>> /\ config = <<>> /\ sheet = EmptySheet /\ lpc = "idle"

InitLayout ==
    /\ table \in Tables
    /\ config \in Configs
    /\ sheet = EmptySheet
    /\ lpc = "input"
    /\ ServerIdle

InitCell ==
    /\ table \in CellTables
    /\ config = [autoFilter |-> FALSE, autoFitColumnWidth |-> FALSE]
    /\ sheet = EmptySheet
    /\ lpc = "input"
    /\ ServerIdle

Place ==
    /\ lpc = "input"
    /\ sheet' = placeTable(sheet, table, config)
    /\ lpc' = "done"
    /\ UNCHANGED <<table, config>>
    /\ UNCHANGED serverVars

NextLayout == Place

SpecLayout == InitLayout /\ [][NextLayout]_vars
SpecCell == InitCell /\ [][NextLayout]_vars

(***************************************************************************)
(* The server as a state machine                                           *)
(***************************************************************************)
Init == LayoutIdle /\ ServerInit

Next ==
    \/ Tick /\ UNCHANGED webs /\ UNCHANGED layoutVars
    \/ \E body \in Bodies : Generate(body) /\ UNCHANGED layoutVars
    \/ \E i \in DOMAIN gens : WriteResolve(i) /\ UNCHANGED layoutVars
    \/ \E i \in DOMAIN gens : WriteReject(i) /\ UNCHANGED layoutVars
    \/ CronFire /\ UNCHANGED layoutVars
    \/ ReaddirCallback /\ UNCHANGED layoutVars
    \/ \E f \in sweep.statPending : StatCallback(f) /\ UNCHANGED layoutVars
    \/ \E f \in sweep.unlinkPending : UnlinkCallback(f) /\ UNCHANGED layoutVars

Spec == Init /\ [][Next]_vars

(***************************************************************************)
(* The web page reader router as a state machine                           *)
(***************************************************************************)
InitWeb == LayoutIdle /\ ServerIdle

NextWeb ==
    \/ \E url \in UrlKinds : GetContent(url) /\ UNCHANGED layoutVars
    \/ \E i \in DOMAIN webs : FetchResolve(i) /\ UNCHANGED layoutVars
    \/ \E i \in DOMAIN webs : FetchReject(i) /\ UNCHANGED layoutVars

SpecWeb == InitWeb /\ [][NextWeb]_vars

(***************************************************************************)
(* Reference notions the claims are stated with                            *)
(***************************************************************************)
IsLetter(c) == \E k \in 1..Len(Letters) : Letters[k] = c
LetterIndex(c) == CHOOSE k \in 1..Len(Letters) : Letters[k] = c

RECURSIVE Pow26(_)
Pow26(k) == IF k = 0 THEN 1 ELSE 26 * Pow26(k - 1)

RECURSIVE LetterPrefixLen(_)
LetterPrefixLen(s) ==
    IF Len(s) = 0 \/ ~IsLetter(s[1]) THEN 0 ELSE 1 + LetterPrefixLen(Tail(s))

RECURSIVE SumTo(_, _)
SumTo(f, k) == IF k = 0 THEN 0 ELSE f[k] + SumTo(f, k - 1)

\* the conventional column index of a cell reference: A=1, Z=26, AA=27
RefCol(ref) ==
    LET n == LetterPrefixLen(ref)
    IN  SumTo([i \in 1..n |-> LetterIndex(ref[i]) * Pow26(n - i)], n)

\* the row number of a cell reference: the decimal number after the letters
RefRow(ref) == DigitsValue(SubSeq(ref, LetterPrefixLen(ref) + 1, Len(ref)))

Laid == lpc = "done"
N == Len(table.columns)
R == Len(table.rows)
HasTitle == Truthy(table.title)
HasHeader == ~table.skipHeader
\* the table's anchor as the layout computed it is a cell of the sheet
Anchored == tableStartRow(table) # NaN
startRow == tableStartRow(table)
startCol == tableStartCol(table)
TitleRows == IF HasTitle THEN 1 ELSE 0
HeaderRows == IF HasHeader THEN 1 ELSE 0
Written(row, col) == <<row, col>> \in DOMAIN sheet.cells

(* C6: for every start cell of one or more letters and a row number, the   *)
(* table is placed at the row of that number and at the base-26 column     *)
(* index of the whole letter sequence: a title is written in that cell.    *)
C6_PlacedAtStartCell ==
    (Laid /\ HasTitle) =>
        LET ref == tableStartCell(table)
        IN  /\ Written(RefRow(ref), RefCol(ref))
            /\ sheet.cells[<<RefRow(ref), RefCol(ref)>>].value = table.title

(* C7: with autoFitColumnWidth the width of column startCol+i is 2 plus    *)
(* the greatest string length among the column's name (when the header is  *)
(* written) and the values of the data cells written in that column, with  *)
(* or without a title.                                                     *)
RECURSIVE MaxOver(_, _)
MaxOver(f, k) == IF k = 0 THEN 0 ELSE Max(f[k], MaxOver(f, k - 1))

DataRow(k) == startRow + TitleRows + HeaderRows + k - 1

ExpectedWidth(i) ==
    2 + Max(IF HasHeader THEN Len(table.columns[i + 1].name) ELSE 0,
            MaxOver([k \in 1..R |->
                        IF i < Len(table.rows[k])
                        THEN StringLength(sheet.cells[<<DataRow(k), startCol + i>>].value)
                        ELSE 0], R))

C7_AutoFitWidth ==
    (Laid /\ Anchored /\ config.autoFitColumnWidth) =>
        \A i \in 0..(N - 1) :
            /\ (startCol + i) \in DOMAIN sheet.widths
            /\ sheet.widths[startCol + i] = ExpectedWidth(i)

(* C8: a title is written at (startRow, startCol) and merged across the N  *)
(* cells startCol..startCol+N-1 of startRow; the column names are in the   *)
(* next row when the header is not skipped; data row k is in the k-th row  *)
(* after that; with no data rows the title and header are placed too.      *)
C8_TablePlacement ==
    (Laid /\ Anchored) =>
        /\ HasTitle =>
            /\ Written(startRow, startCol)
            /\ sheet.cells[<<startRow, startCol>>].value = table.title
            /\ sheet.merges = {[top |-> startRow, left |-> startCol,
                                bottom |-> startRow, right |-> startCol + N - 1]}
        /\ ~HasTitle => sheet.merges = {}
        /\ HasHeader =>
            \A i \in 0..(N - 1) :
                /\ Written(startRow + TitleRows, startCol + i)
                /\ sheet.cells[<<startRow + TitleRows, startCol + i>>].value
                       = Str(table.columns[i + 1].name)
        /\ \A k \in 1..R : \A j \in 0..(Len(table.rows[k]) - 1) :
                /\ Written(DataRow(k), startCol + j)
                /\ sheet.cells[<<DataRow(k), startCol + j>>].style = "body"
        /\ \A rc \in DOMAIN sheet.cells :
                /\ rc[1] >= startRow /\ rc[1] < startRow + TitleRows + HeaderRows + R
                /\ sheet.cells[rc].style = "title" => rc = <<startRow, startCol>>
                /\ sheet.cells[rc].style = "header" => rc[1] = startRow + TitleRows
                /\ sheet.cells[rc].style = "body" => rc[1] >= startRow + TitleRows + HeaderRows

C8_Witness ==
    /\ Laid /\ Anchored /\ HasTitle /\ HasHeader /\ N = 2 /\ R = 2
    /\ Len(table.rows[2]) = 2
    /\ startRow = 12 /\ startCol = 2
    /\ Written(15, 3)

(* C9: a static_value cell of a number column stores the value rounded to  *)
(* the nearest integer, a half rounded up, when the value is a number, and *)
(* the raw literal otherwise; its format is the column's format, or "0".   *)
TheCell == sheet.cells[<<startRow + TitleRows + HeaderRows, startCol>>]
TheInput == table.rows[1][1]
TheColumn == table.columns[1]
InputLiteral ==
    IF TheInput.value.t \in {"null", "undefined"} THEN Str(<<>>) ELSE TheInput.value
\* n is x rounded half up: n - 1/2 <= x < n + 1/2
RoundsHalfUp(x, n) ==
    /\ n.t = "num" /\ n.d = 1
    /\ (2 * n.n - 1) * x.d <= 2 * x.n
    /\ 2 * x.n < (2 * n.n + 1) * x.d

C9_NumberCell ==
    (Laid /\ N = 1 /\ R = 1 /\ TheColumn.type = "number" /\ TheInput.type # "formula") =>
        /\ ~isNaN(Number(InputLiteral)) => RoundsHalfUp(Number(InputLiteral), TheCell.value)
        /\ isNaN(Number(InputLiteral)) => TheCell.value = InputLiteral
        /\ TheCell.numFmt = IF TheColumn.format \in {"", "undefined"} THEN "0"
                            ELSE TheColumn.format
        /\ InputLiteral = Str(<<"4", "2", ".", "7">>) => TheCell.value = Num(43, 1)
        /\ InputLiteral = Str(<<"2", ".", "5">>) => TheCell.value = Num(3, 1)
        /\ InputLiteral = Str(<<"-", "2", ".", "5">>) => TheCell.value = Num(-2, 1)
        /\ InputLiteral = Str(<<"x">>) => TheCell.value = Str(<<"x">>)

C9_Witness ==
    /\ Laid /\ N = 1 /\ R = 1 /\ TheColumn.type = "number" /\ TheColumn.format = ""
    /\ TheInput = CellObject("static_value", Str(<<"4", "2", ".", "7">>))
    /\ TheCell.value = Num(43, 1) /\ TheCell.numFmt = "0"

(* C10: with autoFilter and at least one column, the autofilter range      *)
(* spans the columns startCol..startCol+N-1 and the rows from the one      *)
(* after the header row (after the title row when the header is skipped)   *)
(* to the last data row; with no column no range is registered.            *)
C10_AutoFilterRange ==
    (Laid /\ Anchored /\ config.autoFilter) =>
        IF N >= 1
        THEN sheet.autoFilter =
                [set |-> TRUE,
                 fromRow |-> startRow + TitleRows + HeaderRows, fromCol |-> startCol,
                 toRow |-> startRow + TitleRows + HeaderRows + R - 1,
                 toCol |-> startCol + N - 1]
        ELSE ~sheet.autoFilter.set

(***************************************************************************)
(* Claims about the server                                                 *)
(***************************************************************************)

(* C1: the 200 response with the download URL is sent only after the       *)
(* workbook has been written: no request has its 200 while its write is    *)
(* pending.                                                                *)
C1_ResponseAfterWrite ==
    \A i \in DOMAIN gens : gens[i].status = 200 => gens[i].write = "written"

(* C2: a generate request whose file write fails is answered 500, never    *)
(* 200 with a download URL.                                                *)
C2_WriteFailureAnswered500 ==
    \A i \in DOMAIN gens : gens[i].write = "failed" => gens[i].status = 500

(* C3: a get-content request whose url is missing or not a string is       *)
(* answered 400 once its handler has returned, and nothing is fetched.     *)
C3_BadUrlAnswered400 ==
    \A i \in DOMAIN webs :
        (webs[i].url # "string" /\ webs[i].phase = "returned") =>
            webs[i].status = 400 /\ ~webs[i].fetched

(* C4: after one run of the cleanup job every listed entry modified more   *)
(* than one hour before the run's start is deleted and every entry         *)
(* modified one hour or less before it is kept.                            *)
Listed == DOMAIN sweep.listing
Age(mtime) == sweep.now - mtime

C4_SweepDeletesOld ==
    SweepOver(sweep) =>
        \A f \in Listed :
            /\ Age(sweep.listing[f]) > oneHour => f \in sweep.deleted
            /\ Age(sweep.listing[f]) <= oneHour => f \notin sweep.deleted /\ f \in DOMAIN dir

(* C4 as amended: after one run every listed entry whose stat and unlink   *)
(* succeed and whose modification time is more than one hour before the    *)
(* run's start is deleted; an entry modified one hour or less before it,   *)
(* an entry whose stat fails and a file that was not listed are kept.      *)
C4_SweepDeletesOldUnlessError ==
    /\ \A f \in sweep.deleted \cup sweep.unlinkPending \cup sweep.unlinkErr :
           f \in Listed /\ f \in DOMAIN sweep.seen /\ Age(sweep.seen[f]) > oneHour
    /\ SweepOver(sweep) =>
          \A f \in Listed :
              /\ (f \in DOMAIN sweep.seen /\ Age(sweep.seen[f]) > oneHour
                    /\ f \notin sweep.unlinkErr) => f \in sweep.deleted
              /\ (f \in DOMAIN sweep.seen /\ Age(sweep.seen[f]) <= oneHour) =>
                    f \notin sweep.deleted /\ f \in DOMAIN dir
              /\ f \in sweep.statErr => f \notin sweep.deleted /\ f \in DOMAIN dir

C4_Witness ==
    /\ SweepOver(sweep)
    /\ \E f \in DOMAIN sweep.seen : Age(sweep.seen[f]) = oneHour + 1 /\ f \in sweep.deleted
    /\ \E f \in DOMAIN sweep.seen : Age(sweep.seen[f]) = oneHour /\ f \in DOMAIN dir
    /\ \E f \in DOMAIN dir : f \notin Listed /\ dir[f].mtime >= sweep.now

(* C5: a stat error or an unlink error on one entry does not end the run:  *)
(* every listed entry is still stat-ed, and every entry found older than   *)
(* one hour is unlinked, in whatever order the callbacks come.             *)
C5_ErrorsAreIsolated ==
    sweep.phase = "callbacks" =>
        /\ Listed = sweep.statPending \cup DOMAIN sweep.seen \cup sweep.statErr
        /\ \A f \in DOMAIN sweep.seen :
              Age(sweep.seen[f]) > oneHour =>
                  f \in sweep.unlinkPending \cup sweep.deleted \cup sweep.unlinkErr
        /\ SweepOver(sweep) =>
              \A f \in Listed \ (sweep.statErr \cup sweep.unlinkErr) :
                  Age(sweep.seen[f]) > oneHour => f \in sweep.deleted

C5_Witness ==
    /\ SweepOver(sweep)
    /\ \E f \in sweep.statErr, g \in sweep.unlinkErr, h \in sweep.deleted :
          f # g /\ g # h /\ f # h

====
